---- MODULE Spec2Model ----
(***************************************************************************)
(* Model of trader_2025.py: the indicator / advice computation             *)
(* (generate_analytics, calculate_rsi), the Telegram handlers and the      *)
(* scheduled job around the shared selected_pair dictionary, and the       *)
(* single-position simulator described by the design document.             *)
(***************************************************************************)
EXTENDS Integers, Sequences, FiniteSets, TLC

VARIABLES
    df,             \* analytics: the bars handed to generate_analytics, a sequence of [close, volume]
    result,         \* analytics: what generate_analytics produced for df ("none" before the call)
    initialBalance, \* simulator: the balance the run started with
    closes,         \* simulator: the close of every bar processed so far
    signals,        \* simulator: the Signal of every bar processed so far
    sim,            \* simulator: the SimulationState
    selected_pair,  \* bot: the global dict user id -> pair, in insertion order
    handler,        \* bot: the dispatcher thread, inside handle_pair_callback or idle
    job,            \* bot: the job-queue thread, inside scheduled_analytics or idle
    pass,           \* bot: what the current scheduled_analytics pass has done (history)
    lastSelected,   \* bot: the pair each user selected last (history)
    caption,        \* bot: the caption trade_callback wrote last
    updates,        \* bot: callback queries dispatched so far
    passes          \* bot: scheduled passes started so far

anVars == <<df, result>>
simVars == <<initialBalance, closes, signals, sim>>
botVars == <<selected_pair, handler, job, pass, lastSelected, caption, updates, passes>>
vars == <<anVars, simVars, botVars>>

-----------------------------------------------------------------------------
(* Program constants *)

RSI_PERIOD == 14
BB_WINDOW == 20
BB_NUM_STD == 2
LIMIT == 50
RSI_OVERSOLD == 30
RSI_OVERBOUGHT == 70
SPAN_EMA20 == 20
SPAN_EMA50 == 50
SPAN_MACD_FAST == 12
SPAN_MACD_SLOW == 26

(* Bounds of the explored inputs *)

MaxPrice == 3
MaxVolume == 2
MaxBars == 4
MaxClose == 2
MaxBalance == 2
NumUsers == 3
MaxUpdates == 3
MaxPasses == 1

\* resolution of the fixed-point numbers that stand for the float64 values of ewm().mean()
SCALE == 4000

-----------------------------------------------------------------------------
(* float64 values.  A value is a pair <<n, d>> with d >= 0 in lowest terms: *)
(* d > 0 is the number n/d, <<1,0>> and <<-1,0>> are +inf and -inf, and     *)
(* <<0,0>> is NaN, as IEEE division produces them.                          *)

Abs(x) == IF x < 0 THEN -x ELSE x

Sign(x) == IF x < 0 THEN -1 ELSE IF x > 0 THEN 1 ELSE 0

RECURSIVE GCD(_, _)
GCD(a, b) == IF b = 0 THEN a ELSE GCD(b, a % b)

Norm(n, d) ==
    IF d = 0 THEN <<Sign(n), 0>>
    ELSE LET g == GCD(Abs(n), Abs(d))
             s == Sign(d)
         IN  <<(s * n) \div g, (s * d) \div g>>

NaN == <<0, 0>>
Num(k) == <<k, 1>>
IsNaN(x) == x = NaN
IsInf(x) == x[2] = 0 /\ x[1] # 0

FDiv(a, b) ==
    IF IsNaN(a) \/ IsNaN(b) THEN NaN
    ELSE Norm(a[1] * b[2], a[2] * b[1])

FAdd(a, b) ==
    IF IsNaN(a) \/ IsNaN(b) THEN NaN
    ELSE IF IsInf(a) /\ IsInf(b) THEN (IF a = b THEN a ELSE NaN)
    ELSE Norm(a[1] * b[2] + b[1] * a[2], a[2] * b[2])

FNeg(a) == <<-a[1], a[2]>>

FSub(a, b) == FAdd(a, FNeg(b))

FMul(a, b) ==
    IF IsNaN(a) \/ IsNaN(b) THEN NaN
    ELSE IF (IsInf(a) /\ b[1] = 0) \/ (IsInf(b) /\ a[1] = 0) THEN NaN
    ELSE Norm(a[1] * b[1], a[2] * b[2])

\* a < b and a > b as float comparisons: FALSE whenever an operand is NaN
FLt(a, b) ==
    /\ ~IsNaN(a)
    /\ ~IsNaN(b)
    /\ IF IsInf(a) /\ IsInf(b) THEN a[1] < b[1]
       ELSE a[1] * b[2] < b[1] * a[2]

FGt(a, b) == FLt(b, a)

-----------------------------------------------------------------------------
(* pandas Series operations used by the program; a Series is a sequence of  *)
(* float values                                                             *)

Column(frame, name) == [i \in 1..Len(frame) |-> Num(frame[i][name])]

\* Series.diff(): the first element has no predecessor
Diff(s) == [i \in 1..Len(s) |-> IF i = 1 THEN NaN ELSE FSub(s[i], s[i - 1])]

\* Series.clip(lower=0) and Series.clip(upper=0): NaN stays NaN
ClipLower0(s) == [i \in 1..Len(s) |-> IF FLt(s[i], Num(0)) THEN Num(0) ELSE s[i]]
ClipUpper0(s) == [i \in 1..Len(s) |-> IF FGt(s[i], Num(0)) THEN Num(0) ELSE s[i]]

Negate(s) == [i \in 1..Len(s) |-> FNeg(s[i])]

RECURSIVE WindowSum(_, _, _)
WindowSum(s, lo, hi) == IF lo > hi THEN Num(0) ELSE FAdd(s[lo], WindowSum(s, lo + 1, hi))

\* Series.rolling(window).mean(): min_periods = window, so the value is NaN
\* until the window holds `window` observations none of which is NaN
RollingMean(s, window) ==
    [i \in 1..Len(s) |->
        IF i < window THEN NaN
        ELSE FDiv(WindowSum(s, i - window + 1, i), Num(window))]

ElementwiseDiv(a, b) == [i \in 1..Len(a) |-> FDiv(a[i], b[i])]

\* gain = delta.clip(lower=0) and loss = -delta.clip(upper=0), averaged over the period
AvgGain(series) == RollingMean(ClipLower0(Diff(series)), RSI_PERIOD)
AvgLoss(series) == RollingMean(Negate(ClipUpper0(Diff(series))), RSI_PERIOD)

calculate_rsi(series) ==
    LET avg_gain == AvgGain(series)
        avg_loss == AvgLoss(series)
        rs == ElementwiseDiv(avg_gain, avg_loss)
    IN  [i \in 1..Len(series) |->
            FSub(Num(100), FDiv(Num(100), FAdd(Num(1), rs[i])))]

\* Series.rolling(window).std() squared (ddof = 1): the sample variance of the
\* window, NaN until the window is full.  The deviation itself is irrational,
\* so the bands are kept as (BB_MID, BB_STD^2) and compared through squares.
RollingVar(s, window) ==
    [i \in 1..Len(s) |->
        IF i < window THEN NaN
        ELSE LET sum == WindowSum(s, i - window + 1, i)
                 sq == [j \in 1..Len(s) |-> FMul(s[j], s[j])]
                 sumsq == WindowSum(sq, i - window + 1, i)
             IN  FDiv(FSub(sumsq, FDiv(FMul(sum, sum), Num(window))), Num(window - 1))]

\* price < BB_MID - BB_NUM_STD * BB_STD
BelowLowerBand(price, bb_mid, bb_var) ==
    /\ FGt(FSub(bb_mid, price), Num(0))
    /\ FGt(FMul(FSub(bb_mid, price), FSub(bb_mid, price)),
           FMul(Num(BB_NUM_STD * BB_NUM_STD), bb_var))

\* price > BB_MID + BB_NUM_STD * BB_STD
AboveUpperBand(price, bb_mid, bb_var) ==
    /\ FGt(FSub(price, bb_mid), Num(0))
    /\ FGt(FMul(FSub(price, bb_mid), FSub(price, bb_mid)),
           FMul(Num(BB_NUM_STD * BB_NUM_STD), bb_var))

\* Series.ewm(span=span).mean() with adjust=True, as pandas computes it:
\*   weighted = x[0]; old_wt = 1
\*   for each later x:  old_wt *= 1 - alpha
\*                      if weighted != x: weighted = (old_wt*weighted + x) / (old_wt + 1)
\*                      old_wt += 1
\* with alpha = 2/(span+1).  weighted and old_wt are fixed-point numbers of
\* resolution 1/SCALE; closes are integers.
RECURSIVE EwmFrom(_, _, _, _, _)
EwmFrom(x, span, i, weighted, old_wt) ==
    IF i > Len(x) THEN <<>>
    ELSE LET ow == (old_wt * (span - 1)) \div (span + 1)
             cur == x[i] * SCALE
             w == IF weighted = cur THEN weighted
                  ELSE (ow * weighted + SCALE * cur) \div (ow + SCALE)
         IN  <<w>> \o EwmFrom(x, span, i + 1, w, ow + SCALE)

EwmMean(x, span) ==
    IF Len(x) = 0 THEN <<>>
    ELSE <<x[1] * SCALE>> \o EwmFrom(x, span, 2, x[1] * SCALE, SCALE)

Last(s) == s[Len(s)]

\* the rule without the MACD and band checks and without the volume branch
AdviceTrendOnly(latest_rsi, latest_macd, latest_price, latest_volume_surge, latest_ema20, latest_ema50, bb_mid, bb_var) ==
    IF FLt(latest_rsi, Num(RSI_OVERSOLD)) /\ latest_ema20 > latest_ema50 THEN "STRONG BUY"
    ELSE IF FGt(latest_rsi, Num(RSI_OVERBOUGHT)) /\ latest_ema20 < latest_ema50
    THEN "STRONG SELL"
    ELSE "HOLD"

\* lines 138-145: the advice for the latest bar
Advice(latest_rsi, latest_macd, latest_price, latest_volume_surge, latest_ema20, latest_ema50, bb_mid, bb_var) ==
    IF /\ FLt(latest_rsi, Num(RSI_OVERSOLD))
       /\ latest_macd > 0
       /\ latest_ema20 > latest_ema50
       /\ BelowLowerBand(latest_price, bb_mid, bb_var)
    THEN "STRONG BUY"
    ELSE IF /\ FGt(latest_rsi, Num(RSI_OVERBOUGHT))
            /\ latest_macd < 0
            /\ latest_ema20 < latest_ema50
            /\ AboveUpperBand(latest_price, bb_mid, bb_var)
    THEN "STRONG SELL"
    ELSE IF latest_volume_surge THEN "CAUTION"
    ELSE "HOLD"

NoIndicators ==
    [EMA20 |-> 0, EMA50 |-> 0, RSI |-> NaN, MACD |-> 0, BB_MID |-> NaN, BB_VAR |-> NaN,
     VOL_MEAN |-> NaN, Volume_Surge |-> FALSE, price |-> NaN]

\* generate_analytics(df, pair): the indicator columns, then the advice from
\* the last row.  .iloc[-1] of an empty column raises IndexError.
generate_analytics(frame) ==
    IF Len(frame) = 0
    THEN [status |-> "IndexError", advice |-> "none", latest |-> NoIndicators]
    ELSE LET close == Column(frame, "close")
             volume == Column(frame, "volume")
             px == [i \in 1..Len(frame) |-> frame[i].close]
             EMA20 == EwmMean(px, SPAN_EMA20)
             EMA50 == EwmMean(px, SPAN_EMA50)
             RSI == calculate_rsi(close)
             EMA12 == EwmMean(px, SPAN_MACD_FAST)
             EMA26 == EwmMean(px, SPAN_MACD_SLOW)
             BB_MID == RollingMean(close, BB_WINDOW)
             BB_VAR == RollingVar(close, BB_WINDOW)
             VOL_MEAN == RollingMean(volume, BB_WINDOW)
             surge == FGt(Last(volume), FMul(Last(VOL_MEAN), <<3, 2>>))
             latest == [EMA20 |-> Last(EMA20), EMA50 |-> Last(EMA50), RSI |-> Last(RSI),
                        MACD |-> Last(EMA12) - Last(EMA26),
                        BB_MID |-> Last(BB_MID), BB_VAR |-> Last(BB_VAR),
                        VOL_MEAN |-> Last(VOL_MEAN), Volume_Surge |-> surge,
                        price |-> Last(close)]
         IN  [status |-> "ok",
              advice |-> Advice(latest.RSI, latest.MACD, latest.price, latest.Volume_Surge,
                                latest.EMA20, latest.EMA50, latest.BB_MID, latest.BB_VAR),
              latest |-> latest]

-----------------------------------------------------------------------------
(* The bars explored: n bars whose closes sit at level a, step to level b    *)
(* for the m bars before the last, and end at c; the volume is 1 on every   *)
(* bar but the last, which trades vl.                                        *)

Frame(n, m, a, b, c, vl) ==
    [i \in 1..n |->
        [close |-> IF i = n THEN c ELSE IF i >= n - m THEN b ELSE a,
         volume |-> IF i = n THEN vl ELSE 1]]

Lens == {0, 1, 2} \cup ((RSI_PERIOD - 1)..(RSI_PERIOD + 1))
            \cup ((BB_WINDOW - 1)..(BB_WINDOW + 1)) \cup {LIMIT}

Mids == {0, 1, RSI_PERIOD - 1, RSI_PERIOD, BB_WINDOW - 1, BB_WINDOW}

Frames ==
    {<<>>} \cup
    {Frame(n, m, a, b, c, vl) :
        n \in Lens \ {0}, m \in Mids,
        a \in 1..MaxPrice, b \in 1..MaxPrice, c \in 1..MaxPrice, vl \in 1..MaxVolume}

NoResult == [status |-> "none", advice |-> "none", latest |-> NoIndicators]

FlatState(balance) ==
    [position |-> "Flat", cashBalance |-> Num(balance), unitsHeld |-> Num(0),
     trades |-> <<>>, entryIndex |-> 0, entryPrice |-> 0]

SimIdle ==
    /\ initialBalance = 1
    /\ closes = <<>>
    /\ signals = <<>>
    /\ sim = FlatState(1)

None == "None"

NoRun == [pc |-> "idle", user |-> 0, pair |-> None, chosen |-> None, df |-> <<>>,
          advice |-> "none", trace |-> <<>>, iter_idx |-> 0, iter_used |-> 0]

NoPass == [status |-> "none", start |-> {}, attempted |-> <<>>, joined |-> {}]

\* no confirmation written yet
NoCaption == [user |-> 0, pair |-> None, chosen |-> None]

BotIdle ==
    /\ selected_pair = <<>>
    /\ handler = NoRun
    /\ job = NoRun
    /\ pass = NoPass
    /\ lastSelected = [u \in 1..NumUsers |-> None]
    /\ caption = NoCaption
    /\ updates = 0
    /\ passes = 0

InitAnalytics ==
    /\ df \in Frames
    /\ result = NoResult
    /\ SimIdle
    /\ BotIdle

\* advice, fig = generate_analytics(df, pair)
Analyse ==
    /\ result.status = "none"
    /\ result' = generate_analytics(df)
    /\ UNCHANGED <<df, simVars, botVars>>

NextAnalytics == Analyse

SpecAnalytics == InitAnalytics /\ [][NextAnalytics]_vars

L == result.latest

LargestWindow == IF RSI_PERIOD > BB_WINDOW THEN RSI_PERIOD ELSE BB_WINDOW

BuyRule ==
    /\ FLt(L.RSI, Num(RSI_OVERSOLD))
    /\ L.MACD > 0
    /\ L.EMA20 > L.EMA50
    /\ BelowLowerBand(L.price, L.BB_MID, L.BB_VAR)

SellRule ==
    /\ FGt(L.RSI, Num(RSI_OVERBOUGHT))
    /\ L.MACD < 0
    /\ L.EMA20 < L.EMA50
    /\ AboveUpperBand(L.price, L.BB_MID, L.BB_VAR)

C4_UndefinedIndicatorHolds ==
    (/\ result.status = "ok"
     /\ \/ IsNaN(L.RSI)
        \/ IsNaN(L.BB_MID)
        \/ IsNaN(L.BB_VAR)
        \/ IsNaN(L.VOL_MEAN))
    => result.advice = "HOLD"

\* C5: a bar sequence shorter than the largest window ends the indicator stage
\* in an error outcome and yields no indicators.
C5_ShortSeriesInsufficientData ==
    (result.status # "none" /\ Len(df) < LargestWindow) => result.status # "ok"

\* C8: once the RSI window is full, an average loss of 0 gives RSI = 100,
\* also when the average gain is 0 too.
C8_RsiIs100WhenNoLoss ==
    (/\ result.status = "ok"
     /\ Len(df) > RSI_PERIOD
     /\ Last(AvgLoss(Column(df, "close"))) = Num(0))
    => L.RSI = Num(100)

-----------------------------------------------------------------------------
(* PositionSimulator (design document, section 4.3): one all-in position,   *)
(* walked bar by bar.  Bar indices count from 0.                             *)

Signal == {"Buy", "Sell", "Hold"}

\* entering keeps the cash on the books
PositionSimulatorStepKeepCash(st, i, signal, close) ==
    IF st.position = "Flat" /\ signal = "Buy"
    THEN [st EXCEPT !.position = "Long",
                    !.unitsHeld = FDiv(st.cashBalance, Num(close)),
                    !.entryIndex = i, !.entryPrice = close]
    ELSE IF st.position = "Long" /\ signal = "Sell"
    THEN [st EXCEPT !.position = "Flat",
                    !.cashBalance = FMul(st.unitsHeld, Num(close)),
                    !.unitsHeld = Num(0),
                    !.trades = Append(st.trades,
                        [entryIndex |-> st.entryIndex, entryPrice |-> st.entryPrice,
                         exitIndex |-> i, exitPrice |-> close])]
    ELSE st

\* entering buys whole units only
PositionSimulatorStepWholeUnits(st, i, signal, close) ==
    IF st.position = "Flat" /\ signal = "Buy"
    THEN [st EXCEPT !.position = "Long",
                    !.unitsHeld = Num(st.cashBalance[1] \div (st.cashBalance[2] * close)),
                    !.cashBalance = Num(0),
                    !.entryIndex = i, !.entryPrice = close]
    ELSE IF st.position = "Long" /\ signal = "Sell"
    THEN [st EXCEPT !.position = "Flat",
                    !.cashBalance = FMul(st.unitsHeld, Num(close)),
                    !.unitsHeld = Num(0),
                    !.trades = Append(st.trades,
                        [entryIndex |-> st.entryIndex, entryPrice |-> st.entryPrice,
                         exitIndex |-> i, exitPrice |-> close])]
    ELSE st

PositionSimulatorStep(st, i, signal, close) ==
    IF st.position = "Flat" /\ signal = "Buy"
    THEN [st EXCEPT !.position = "Long",
                    !.unitsHeld = FDiv(st.cashBalance, Num(close)),
                    !.cashBalance = Num(0),
                    !.entryIndex = i, !.entryPrice = close]
    ELSE IF st.position = "Long" /\ signal = "Sell"
    THEN [st EXCEPT !.position = "Flat",
                    !.cashBalance = FMul(st.unitsHeld, Num(close)),
                    !.unitsHeld = Num(0),
                    !.trades = Append(st.trades,
                        [entryIndex |-> st.entryIndex, entryPrice |-> st.entryPrice,
                         exitIndex |-> i, exitPrice |-> close])]
    ELSE st

\* the cash when Flat, the position marked to the last close when Long
FinalEquity(st, lastClose) ==
    IF st.position = "Flat" THEN st.cashBalance ELSE FMul(st.unitsHeld, Num(lastClose))

InitSim ==
    /\ initialBalance \in 1..MaxBalance
    /\ closes = <<>>
    /\ signals = <<>>
    /\ sim = FlatState(initialBalance)
    /\ df = <<>>
    /\ result = NoResult
    /\ BotIdle

ProcessBar ==
    /\ Len(signals) < MaxBars
    /\ \E signal \in Signal, close \in 1..MaxClose :
        /\ sim' = PositionSimulatorStep(sim, Len(signals), signal, close)
        /\ signals' = Append(signals, signal)
        /\ closes' = Append(closes, close)
    /\ UNCHANGED <<initialBalance, anVars, botVars>>

NextSim == ProcessBar

SpecSim == InitSim /\ [][NextSim]_vars

\* C1: all-in/all-out: units held imply Long with no cash, cash implies Flat
\* with no units, after every prefix of every Signal sequence.
C1_AllInAllOut ==
    /\ FGt(sim.unitsHeld, Num(0)) => (sim.position = "Long" /\ sim.cashBalance = Num(0))
    /\ FGt(sim.cashBalance, Num(0)) => (sim.position = "Flat" /\ sim.unitsHeld = Num(0))

C1_Witness ==
    /\ sim.position = "Long"
    /\ FGt(sim.unitsHeld, Num(0))
    /\ Len(sim.trades) > 0

OneRoundTrip(k, m) ==
    /\ k < m
    /\ signals[k + 1] = "Buy"
    /\ signals[m + 1] = "Sell"
    /\ \A j \in 0..(Len(signals) - 1) : j \notin {k, m} => signals[j + 1] = "Hold"

\* C2: one Buy at k and one Sell at m > k, Hold elsewhere: the run ends Flat
\* with the single ClosedTrade (k, m) and
\* finalEquity = initialBalance * close[m] / close[k].
C2_RoundTrip ==
    \A k, m \in 0..(Len(signals) - 1) :
        OneRoundTrip(k, m) =>
            /\ sim.position = "Flat"
            /\ sim.trades = <<[entryIndex |-> k, entryPrice |-> closes[k + 1],
                               exitIndex |-> m, exitPrice |-> closes[m + 1]]>>
            /\ FinalEquity(sim, Last(closes)) =
                   FDiv(FMul(Num(initialBalance), Num(closes[m + 1])), Num(closes[k + 1]))

C2_Witness ==
    \E k, m \in 0..(Len(signals) - 1) :
        /\ OneRoundTrip(k, m)
        /\ closes[k + 1] # closes[m + 1]
        /\ m < Len(signals) - 1
        /\ Len(sim.trades) = 1

-----------------------------------------------------------------------------
(* The bot: handle_pair_callback and trade_callback on the dispatcher       *)
(* thread (one update at a time) and scheduled_analytics on the job-queue   *)
(* thread (run_repeating, one pass at a time), both over selected_pair.     *)
(* The two threads interleave between the statements of a run.  /start and  *)
(* /select_pair only reply and touch no state.  In handler, job and pass    *)
(* the fields chosen, trace, start, attempted and joined are history.       *)

Users == 1..NumUsers

\* two of the pairs the /select_pair keyboard offers
Pairs == {"BTC/USDT", "ETH/USDT"}

\* selected_pair is a dict: a sequence of [key, value] in insertion order
Keys(d) == {d[i].key : i \in 1..Len(d)}

\* selected_pair.get(user_id)
DictGet(d, k) ==
    IF k \in Keys(d) THEN d[CHOOSE i \in 1..Len(d) : d[i].key = k].value ELSE None

\* selected_pair[user_id] = pair: a new key goes last, a known key keeps its place
DictSet(d, k, v) ==
    IF k \in Keys(d)
    THEN [i \in 1..Len(d) |-> IF d[i].key = k THEN [key |-> k, value |-> v] ELSE d[i]]
    ELSE Append(d, [key |-> k, value |-> v])

\* what exchange.fetch_ohlcv can answer: no bars, or the two bars of a pair
\* listed half an hour ago; or it raises
Feed == {<<>>, Frame(2, 0, 1, 1, 2, 1)}

Answers == {[raises |-> TRUE, bars |-> <<>>]} \cup {[raises |-> FALSE, bars |-> f] : f \in Feed}

\* the names send_chart_with_buttons can resolve: its parameters and locals,
\* and the module's globals
SendChartLocals == {"bot", "user_id", "advice", "fig", "buf", "keyboard", "markup", "message_text"}

ModuleGlobals ==
    {"os", "logging", "asyncio", "datetime", "ccxt", "pd", "plt", "BytesIO", "Update",
     "InlineKeyboardButton", "InlineKeyboardMarkup", "Updater", "CommandHandler",
     "CallbackQueryHandler", "CallbackContext", "load_dotenv", "TELEGRAM_BOT_TOKEN",
     "BINANCE_API_KEY", "BINANCE_API_SECRET", "CHAT_ID", "logger", "exchange",
     "selected_pair", "start", "select_pair", "handle_pair_callback", "scheduled_analytics",
     "fetch_ohlcv", "generate_analytics", "calculate_rsi", "send_chart_with_buttons",
     "trade_callback", "main"}

Log(run, entry) == [run EXCEPT !.trace = Append(@, entry)]

\* the except clause of the caller (lines 76-77, 88-89): log the error, end the run
Except(run) == [Log(run, "log:error") EXCEPT !.pc = "done"]

\* fetch_ohlcv without the re-raise: the caller goes on with an empty frame
fetch_ohlcv_swallow(run, answer) ==
    IF answer.raises
    THEN [Log(Log(run, "fetch:error"), "log:error-fetching") EXCEPT !.df = <<>>, !.pc = "analytics"]
    ELSE [Log(run, "fetch:ok") EXCEPT !.df = answer.bars, !.pc = "analytics"]

\* df = fetch_ohlcv(pair): a failure is logged and raised again to the caller
fetch_ohlcv(run, answer) ==
    IF answer.raises
    THEN Except(Log(Log(run, "fetch:error"), "log:error-fetching"))
    ELSE [Log(run, "fetch:ok") EXCEPT !.df = answer.bars, !.pc = "analytics"]

\* advice, fig = generate_analytics(df, pair) inside the caller's try
RunAnalytics(run) ==
    LET res == generate_analytics(run.df)
    IN  IF res.status = "ok"
        THEN [Log(run, "analytics:ok") EXCEPT !.advice = res.advice, !.pc = "send"]
        ELSE Except(Log(run, "analytics:" \o res.status))

\* send_chart_with_buttons: the caption reads df, which is neither a local of
\* the function nor a global of the module, so building it raises NameError
\* before bot.send_photo; the function's own except logs it and returns
send_chart_with_buttons(run) ==
    IF "df" \in SendChartLocals \cup ModuleGlobals
    THEN [Log(run, "send_photo") EXCEPT !.pc = "log"]
    ELSE [Log(Log(run, "send:NameError"), "log:error-sending") EXCEPT !.pc = "log"]

\* logger.info("... analytics sent to user ...")
LogSent(run) == [Log(run, "log:analytics-sent") EXCEPT !.pc = "done"]

\* the handler returns: the dispatcher is free again (the trace is kept)
HandlerEnd(run) == IF run.pc = "done" THEN [NoRun EXCEPT !.trace = run.trace] ELSE run

\* the loop body ends: back to the for statement
LoopEnd(run) ==
    IF run.pc = "done"
    THEN [NoRun EXCEPT !.pc = "next", !.trace = run.trace,
                       !.iter_idx = run.iter_idx, !.iter_used = run.iter_used]
    ELSE run

Init ==
    /\ BotIdle
    /\ SimIdle
    /\ df = <<>>
    /\ result = NoResult

\* handle_pair_callback, lines 61-69: store the pair, then start the run
PairCallback(u, p) ==
    /\ handler.pc = "idle"
    /\ updates < MaxUpdates
    /\ updates' = updates + 1
    /\ selected_pair' = DictSet(selected_pair, u, p)
    /\ lastSelected' = [lastSelected EXCEPT ![u] = p]
    /\ handler' = [NoRun EXCEPT !.pc = "fetch", !.user = u, !.pair = p, !.chosen = p]
    /\ pass' = IF pass.status = "running" /\ u \notin Keys(selected_pair)
               THEN [pass EXCEPT !.joined = @ \cup {u}]
               ELSE pass
    /\ UNCHANGED <<job, caption, passes, anVars, simVars>>

HandlerFetch ==
    /\ handler.pc = "fetch"
    /\ \E answer \in Answers : handler' = HandlerEnd(fetch_ohlcv(handler, answer))
    /\ UNCHANGED <<selected_pair, job, pass, lastSelected, caption, updates, passes, anVars, simVars>>

HandlerAnalytics ==
    /\ handler.pc = "analytics"
    /\ handler' = HandlerEnd(RunAnalytics(handler))
    /\ UNCHANGED <<selected_pair, job, pass, lastSelected, caption, updates, passes, anVars, simVars>>

HandlerSend ==
    /\ handler.pc = "send"
    /\ handler' = send_chart_with_buttons(handler)
    /\ UNCHANGED <<selected_pair, job, pass, lastSelected, caption, updates, passes, anVars, simVars>>

HandlerLogSent ==
    /\ handler.pc = "log"
    /\ handler' = HandlerEnd(LogSent(handler))
    /\ UNCHANGED <<selected_pair, job, pass, lastSelected, caption, updates, passes, anVars, simVars>>

\* trade_callback: the caption (BUY or SELL Confirmed) names the pair the dict
\* holds for the user
trade_callback(u) ==
    /\ handler.pc = "idle"
    /\ updates < MaxUpdates
    /\ updates' = updates + 1
    /\ caption' = [user |-> u, pair |-> DictGet(selected_pair, u), chosen |-> lastSelected[u]]
    /\ UNCHANGED <<selected_pair, handler, job, pass, lastSelected, passes, anVars, simVars>>

\* scheduled_analytics, line 82: the for statement takes an iterator of
\* selected_pair.items(), which remembers the size of the dict
PassStart ==
    /\ job.pc = "idle"
    /\ passes < MaxPasses
    /\ passes' = passes + 1
    /\ job' = [NoRun EXCEPT !.pc = "next", !.iter_used = Len(selected_pair)]
    /\ pass' = [status |-> "running", start |-> Keys(selected_pair),
                attempted |-> <<>>, joined |-> {}]
    /\ UNCHANGED <<selected_pair, handler, lastSelected, caption, updates, anVars, simVars>>

\* the iterator's next(): RuntimeError when the dict changed size since the
\* iterator was made (raised outside the try, so the pass ends there), the
\* end of the loop when the entries are used up, else the next (user, pair)
PassNext ==
    /\ job.pc = "next"
    /\ IF Len(selected_pair) # job.iter_used
       THEN /\ job' = [NoRun EXCEPT !.trace = <<"RuntimeError">>]
            /\ pass' = [pass EXCEPT !.status = "aborted"]
       ELSE IF job.iter_idx >= Len(selected_pair)
       THEN /\ job' = NoRun
            /\ pass' = [pass EXCEPT !.status = "done"]
       ELSE LET e == selected_pair[job.iter_idx + 1]
            IN  /\ job' = [NoRun EXCEPT !.pc = "fetch", !.user = e.key, !.pair = e.value,
                                        !.chosen = lastSelected[e.key],
                                        !.iter_idx = job.iter_idx + 1,
                                        !.iter_used = job.iter_used]
                /\ pass' = [pass EXCEPT !.attempted = Append(@, e.key)]
    /\ UNCHANGED <<selected_pair, handler, lastSelected, caption, updates, passes, anVars, simVars>>

JobFetch ==
    /\ job.pc = "fetch"
    /\ \E answer \in Answers : job' = LoopEnd(fetch_ohlcv(job, answer))
    /\ UNCHANGED <<selected_pair, handler, pass, lastSelected, caption, updates, passes, anVars, simVars>>

JobAnalytics ==
    /\ job.pc = "analytics"
    /\ job' = LoopEnd(RunAnalytics(job))
    /\ UNCHANGED <<selected_pair, handler, pass, lastSelected, caption, updates, passes, anVars, simVars>>

JobSend ==
    /\ job.pc = "send"
    /\ job' = send_chart_with_buttons(job)
    /\ UNCHANGED <<selected_pair, handler, pass, lastSelected, caption, updates, passes, anVars, simVars>>

JobLogSent ==
    /\ job.pc = "log"
    /\ job' = LoopEnd(LogSent(job))
    /\ UNCHANGED <<selected_pair, handler, pass, lastSelected, caption, updates, passes, anVars, simVars>>

Next ==
    \/ \E u \in Users, p \in Pairs : PairCallback(u, p)
    \/ HandlerFetch
    \/ HandlerAnalytics
    \/ HandlerSend
    \/ HandlerLogSent
    \/ \E u \in Users : trade_callback(u)
    \/ PassStart
    \/ PassNext
    \/ JobFetch
    \/ JobAnalytics
    \/ JobSend
    \/ JobLogSent

Spec == Init /\ [][Next]_vars

Runs == {handler, job}

InRun(run) == run.pc \in {"fetch", "analytics", "send", "log"}

Before(t, j, entry) == \E i \in 1..(j - 1) : t[i] = entry

StageFailed(entry) == entry \in {"fetch:error", "analytics:IndexError"}

\* C6: a run in which fetching or the analytics fail is aborted as a whole:
\* after the failed stage the run only logs the error (no later stage runs,
\* nothing is sent, no "analytics sent" is logged), and a photo is sent only
\* after both stages succeeded.
C6_FailedRunAborted ==
    \A run \in Runs :
        \A j \in 1..Len(run.trace) :
            /\ StageFailed(run.trace[j]) =>
                   \A k \in (j + 1)..Len(run.trace) :
                       run.trace[k] \in {"log:error-fetching", "log:error"}
            /\ run.trace[j] = "send_photo" =>
                   (Before(run.trace, j, "fetch:ok") /\ Before(run.trace, j, "analytics:ok"))

\* both kinds of failure have ended a run: the handler's on the fetch, the
\* pass's on the analytics
C6_Witness ==
    /\ handler.pc = "idle"
    /\ \E j \in 1..Len(handler.trace) : handler.trace[j] = "fetch:error"
    /\ job.pc = "next"
    /\ \E j \in 1..Len(job.trace) : job.trace[j] = "analytics:IndexError"

\* C7: runs of different users are independent: the dict holds for every user
\* the pair that user selected last, every run and confirmation for u uses
\* the pair u had selected last when it began, and a user registered when a
\* pass started loses its run of that pass only through its own doing, never
\* because another user selected a pair meanwhile.
C7_RunsIndependent ==
    /\ \A u \in Users : DictGet(selected_pair, u) = lastSelected[u]
    /\ \A run \in Runs : InRun(run) => run.pair = run.chosen
    /\ caption.pair = caption.chosen
    /\ pass.status \in {"done", "aborted"} =>
           \A u \in pass.start :
               (\A i \in 1..Len(pass.attempted) : pass.attempted[i] # u) =>
                   pass.joined \ {u} = {}

\* C9: a run logs "analytics sent" only after bot.send_photo was called in it,
\* and a run whose fetch and analytics succeeded does send the photo.
C9_SentLoggedOnlyAfterPhoto ==
    \A run \in Runs :
        \A j \in 1..Len(run.trace) :
            /\ run.trace[j] = "log:analytics-sent" => Before(run.trace, j, "send_photo")
            /\ (run.trace[j] = "analytics:ok" /\ j < Len(run.trace)) =>
                   run.trace[j + 1] = "send_photo"

\* C10: a finished pass has attempted exactly one run for every user that was
\* registered when it started, whatever happened meanwhile.
C10_EveryRegisteredUserOnce ==
    pass.status \in {"done", "aborted"} =>
        \A u \in pass.start :
            Cardinality({i \in 1..Len(pass.attempted) : pass.attempted[i] = u}) = 1

====
